---- MODULE Spec2Model ----
(***************************************************************************)
(* Shrimp Pantheon scoreboard (src/scoreboard.js): the CSV parser, the     *)
(* score tally, the ranker and the Hall of Fame build.                     *)
(*                                                                         *)
(* Representation.  A JavaScript string is a sequence of characters, each  *)
(* character a one-element TLA+ string; the two code points outside ASCII  *)
(* that the model uses are written by their names, "U+00E9" (e with acute, *)
(* precomposed) and "U+0301" (combining acute accent).  A JavaScript       *)
(* number is an exact decimal counted in hundredths (2.5 is 250); IEEE     *)
(* rounding, Infinity and NaN are outside the model.  Array indices are    *)
(* those of the source (0-based) wherever the source computes with them.   *)
(***************************************************************************)
EXTENDS Integers, Sequences, FiniteSets, TLC

(***************************************************************************)
(* Bounds of the model.                                                    *)
(***************************************************************************)
\* The Hall of Fame is built for dates up to this many years after the
\* first tracked year.
YearsAhead == 1
\* Data lines appended after the header of a CSV text.
MaxDataLines == 2
\* Records handed to tallyScores.
MaxRecords == 3

(***************************************************************************)
(* Program constants.                                                      *)
(***************************************************************************)
SCOREBOARD_FIRST_YEAR == 2024
SCOREBOARD_DATA_FOLDER == <<"d", "a", "t", "a">>

(***************************************************************************)
(* Small helpers.                                                          *)
(***************************************************************************)
Min(S) == CHOOSE x \in S : \A y \in S : x <= y
Max(S) == CHOOSE x \in S : \A y \in S : x >= y

LF == "\n"
CR == "\r"

(***************************************************************************)
(* String primitives of the platform, as parseCsv uses them.               *)
(***************************************************************************)
\* White space in the sense of String.prototype.trim.
IsWhitespace(c) == c \in {" ", "\t", LF, CR}

\* s.trim()
trim(s) ==
  LET keep == {i \in 1..Len(s) : ~IsWhitespace(s[i])}
  IN  IF keep = {} THEN <<>> ELSE SubSeq(s, Min(keep), Max(keep))

\* s.split(/\r?\n/): always at least one element.
RECURSIVE splitLines(_)
splitLines(s) ==
  LET nl == {i \in 1..Len(s) : s[i] = LF}
  IN  IF nl = {} THEN <<s>>
      ELSE LET i == Min(nl)
               e == IF i > 1 /\ s[i - 1] = CR THEN i - 2 ELSE i - 1
           IN  <<SubSeq(s, 1, e)>> \o splitLines(SubSeq(s, i + 1, Len(s)))

\* s.indexOf(c, from): 0-based, -1 when absent.
indexOf(s, c, from) ==
  LET hit == {i \in 0..(Len(s) - 1) : i >= from /\ s[i + 1] = c}
  IN  IF hit = {} THEN -1 ELSE Min(hit)

\* s.slice(a, b) for 0 <= a, b <= length.
slice(s, a, b) == SubSeq(s, a + 1, b)

IsDigit(c) == c \in {"0", "1", "2", "3", "4", "5", "6", "7", "8", "9"}

DigitVal(c) ==
  CASE c = "0" -> 0 [] c = "1" -> 1 [] c = "2" -> 2 [] c = "3" -> 3
    [] c = "4" -> 4 [] c = "5" -> 5 [] c = "6" -> 6 [] c = "7" -> 7
    [] c = "8" -> 8 [] c = "9" -> 9

\* Last index of the maximal run of digits that starts at index i (1-based).
DigitsEnd(s, i) ==
  Max({j \in i..Len(s) : \A k \in i..j : IsDigit(s[k])})

\* s.match(/-?\d+(\.\d+)?/): the first (leftmost) match, <<>> for null.
matchNumber(s) ==
  LET starts == {i \in 1..Len(s) :
                   \/ IsDigit(s[i])
                   \/ s[i] = "-" /\ i < Len(s) /\ IsDigit(s[i + 1])}
  IN  IF starts = {} THEN <<>>
      ELSE LET b == Min(starts)
               d == IF s[b] = "-" THEN b + 1 ELSE b
               e == DigitsEnd(s, d)
               f == IF e + 2 <= Len(s) /\ s[e + 1] = "." /\ IsDigit(s[e + 2])
                    THEN DigitsEnd(s, e + 2) ELSE e
           IN  SubSeq(s, b, f)

RECURSIVE DecimalInt(_)
DecimalInt(digits) ==
  IF digits = <<>> THEN 0
  ELSE DecimalInt(SubSeq(digits, 1, Len(digits) - 1)) * 10
         + DigitVal(digits[Len(digits)])

\* Number(token) for a token matched by matchNumber, in hundredths.
toNumber(token) ==
  LET neg  == token[1] = "-"
      body == IF neg THEN Tail(token) ELSE token
      dot  == {i \in 1..Len(body) : body[i] = "."}
      ip   == IF dot = {} THEN body ELSE SubSeq(body, 1, Min(dot) - 1)
      fp   == IF dot = {} THEN <<>> ELSE SubSeq(body, Min(dot) + 1, Len(body))
      f1   == IF Len(fp) >= 1 THEN DigitVal(fp[1]) ELSE 0
      f2   == IF Len(fp) >= 2 THEN DigitVal(fp[2]) ELSE 0
      mag  == DecimalInt(ip) * 100 + f1 * 10 + f2
  IN  IF neg THEN 0 - mag ELSE mag

(***************************************************************************)
(* parseCsv (scoreboard.js, section 6).                                    *)
(***************************************************************************)
\* One pass of the loop body of parseCsv over lines[i]: the record pushed,
\* as a one-element sequence, or <<>> when the line is skipped.
parseLine(raw) ==
  LET line        == trim(raw)
      firstComma  == indexOf(line, ",", 0)
      secondComma == indexOf(line, ",", firstComma + 1)
      playerPart  == trim(slice(line, 0, firstComma))
      scorePart   == trim(slice(line, firstComma + 1, secondComma))
      match       == matchNumber(scorePart)
  IN  IF line = <<>> THEN <<>>
      ELSE IF firstComma = -1 THEN <<>>
      ELSE IF secondComma = -1 THEN <<>>
      ELSE IF playerPart = <<>> THEN <<>>
      ELSE IF match = <<>> THEN <<>>
      ELSE <<[player |-> playerPart, score |-> toNumber(match)]>>

\* The for loop of parseCsv from index i (0-based) to the last line.
RECURSIVE parseFrom(_, _)
parseFrom(lines, i) ==
  IF i >= Len(lines) THEN <<>>
  ELSE parseLine(lines[i + 1]) \o parseFrom(lines, i + 1)

\* As parseCsv, with the loop started at index 0 (the header is parsed too).
parseCsvFromHeader(text) ==
  LET lines == splitLines(trim(text))
  IN  IF Len(lines) <= 1 THEN <<>> ELSE parseFrom(lines, 0)

parseCsv(text) ==
  LET lines == splitLines(trim(text))
  IN  IF Len(lines) <= 1 THEN <<>> ELSE parseFrom(lines, 1)

(***************************************************************************)
(* tallyScores.  A Map is the sequence of its entries in insertion order.  *)
(***************************************************************************)
mapHas(m, k) == \E i \in 1..Len(m) : m[i].player = k

mapGet(m, k) == m[CHOOSE i \in 1..Len(m) : m[i].player = k].total

\* Map.prototype.set: an existing key keeps its place.
mapSet(m, k, v) ==
  IF mapHas(m, k)
  THEN [i \in 1..Len(m) |-> IF m[i].player = k
                            THEN [player |-> k, total |-> v] ELSE m[i]]
  ELSE Append(m, [player |-> k, total |-> v])

\* As tallyOne, with the previous total dropped.
tallyOneOverwrite(totals, rec) == mapSet(totals, rec.player, rec.score)

\* The body of the forEach callback of tallyScores.
tallyOne(totals, rec) ==
  LET previous == IF mapHas(totals, rec.player)
                  THEN mapGet(totals, rec.player) ELSE 0
  IN  mapSet(totals, rec.player, previous + rec.score)

RECURSIVE tallyScores(_)
tallyScores(recs) ==
  IF recs = <<>> THEN <<>>
  ELSE tallyOne(tallyScores(SubSeq(recs, 1, Len(recs) - 1)), recs[Len(recs)])

(***************************************************************************)
(* String.prototype.localeCompare, as the comparator of createRankedArray  *)
(* uses it: the multi-level comparison of the Unicode collation algorithm  *)
(* restricted to the characters of the model.  Canonically equivalent      *)
(* strings compare equal (ECMA-262, String.prototype.localeCompare).       *)
(***************************************************************************)
LowerLetters == <<"a", "b", "c", "e", "h", "x", "y", "z">>
UpperLetters == <<"A", "B", "C", "E", "H", "X", "Y", "Z">>
\* Characters that sort before every letter, in collation order.
NonLetters == <<" ", "-", ".", "0", "1", "2", "3", "4", "5", "6", "7", "8", "9">>

PosIn(seq, c) ==
  IF \E i \in 1..Len(seq) : seq[i] = c
  THEN CHOOSE i \in 1..Len(seq) : seq[i] = c ELSE 0

\* Canonical decomposition of one character.
Decompose(c) == IF c = "U+00E9" THEN <<"e", "U+0301">> ELSE <<c>>

RECURSIVE NFD(_)
NFD(s) == IF s = <<>> THEN <<>> ELSE Decompose(Head(s)) \o NFD(Tail(s))

\* Collation weights of a character at levels 1 (base letter), 2 (accent)
\* and 3 (case); 0 is "ignorable at this level".
Weight(c, level) ==
  LET letter == IF PosIn(LowerLetters, c) > 0 THEN PosIn(LowerLetters, c)
                ELSE PosIn(UpperLetters, c)
  IN  IF c = "U+0301"
      THEN (IF level = 1 THEN 0 ELSE IF level = 2 THEN 2 ELSE 1)
      ELSE IF level = 1
           THEN (IF letter > 0 THEN Len(NonLetters) + letter
                 ELSE PosIn(NonLetters, c))
           ELSE IF level = 2 THEN 1
           ELSE (IF PosIn(UpperLetters, c) > 0 THEN 2 ELSE 1)

\* The sort key of s at one level: the non-ignorable weights, in order.
RECURSIVE LevelKey(_, _)
LevelKey(s, level) ==
  IF s = <<>> THEN <<>>
  ELSE (IF Weight(Head(s), level) = 0 THEN <<>>
        ELSE <<Weight(Head(s), level)>>) \o LevelKey(Tail(s), level)

\* -1, 0, 1: lexicographic comparison of two keys.
RECURSIVE CompareKeys(_, _)
CompareKeys(k1, k2) ==
  IF k1 = <<>> /\ k2 = <<>> THEN 0
  ELSE IF k1 = <<>> THEN -1
  ELSE IF k2 = <<>> THEN 1
  ELSE IF Head(k1) < Head(k2) THEN -1
  ELSE IF Head(k1) > Head(k2) THEN 1
  ELSE CompareKeys(Tail(k1), Tail(k2))

localeCompare(a, b) ==
  LET da == NFD(a)
      db == NFD(b)
      c1 == CompareKeys(LevelKey(da, 1), LevelKey(db, 1))
      c2 == CompareKeys(LevelKey(da, 2), LevelKey(db, 2))
      c3 == CompareKeys(LevelKey(da, 3), LevelKey(db, 3))
  IN  IF c1 # 0 THEN c1 ELSE IF c2 # 0 THEN c2 ELSE c3

(***************************************************************************)
(* createRankedArray.                                                      *)
(***************************************************************************)
\* As compareEntries, without the tie-break on the name.
compareTotalsOnly(a, b) == b.total - a.total

\* The comparator handed to entries.sort.
compareEntries(a, b) ==
  IF b.total # a.total THEN b.total - a.total
  ELSE localeCompare(a.player, b.player)

\* Array.prototype.sort with compareEntries: a stable sort.
RECURSIVE sortEntries(_)
sortEntries(entries) ==
  IF entries = <<>> THEN <<>>
  ELSE LET front  == sortEntries(SubSeq(entries, 1, Len(entries) - 1))
           x      == entries[Len(entries)]
           before == {i \in 1..Len(front) : compareEntries(front[i], x) <= 0}
           k      == IF before = {} THEN 0 ELSE Max(before)
       IN  SubSeq(front, 1, k) \o <<x>> \o SubSeq(front, k + 1, Len(front))

createRankedArray(totalsMap) ==
  LET entries == sortEntries(totalsMap)
  IN  [index \in 1..Len(entries) |->
         [rank   |-> index,
          player |-> entries[index].player,
          total  |-> entries[index].total]]

(***************************************************************************)
(* State.                                                                  *)
(***************************************************************************)
VARIABLES
  \* Hall of Fame build
  pc,             \* where buildHallOfFame stands
  currentInfo,    \* { year, split } of the page load
  splitsToCheck,  \* the enumerated splits
  units,          \* one summariseSplitForHallOfFame call per enumerated split
  values,         \* the result array Promise.all fills
  summaries,      \* the awaited result of Promise.all, once it is there
  container,      \* the Hall of Fame container element
  fetchLog,       \* the CSV paths fetched for the Hall of Fame, in order of issue
  reordered,      \* a fetch settled while one enumerated before it was pending
  \* parseCsv / tallyScores / createRankedArray on their own
  stage,          \* which of the three has run
  text,           \* the input of parseCsv
  inputLines,     \* the lines text was written from
  records,        \* the result of parseCsv, or the input of tallyScores
  totalsMap,      \* the result of tallyScores
  ranked          \* the result of createRankedArray

hofVars == <<pc, currentInfo, splitsToCheck, units, values, summaries,
             container, fetchLog, reordered>>
pureVars == <<stage, text, inputLines, records, totalsMap, ranked>>
vars == <<pc, currentInfo, splitsToCheck, units, values, summaries,
          container, fetchLog, reordered,
          stage, text, inputLines, records, totalsMap, ranked>>

(***************************************************************************)
(* Inputs.                                                                 *)
(***************************************************************************)
\* Lines of CSV text.
LineBlank    == <<>>
LineSpace    == <<" ">>
LineHeader   == <<"H">>
LineA5       == <<"A", ",", "5", ",">>
LineB5       == <<"B", ",", "5", ",">>
LineC1       == <<"C", ",", "1", ",">>
LineBNeg     == <<" ", "B", " ", ",", " ", "-", "2", ".", "5", ",", "x">>
LineTwoField == <<"A", ",", "2">>
LineNoScore  == <<"Y", ",">>
LineNoPlayer == <<",", "5", ",">>
LineNoNumber == <<"C", ",", "x", ",">>
LineEmbedded == <<"Z", ",", "a", "2", ".", "5", "x", ",", "n">>

\* The lines joined by a line terminator.
RECURSIVE JoinLines(_, _)
JoinLines(lines, sep) ==
  IF lines = <<>> THEN <<>>
  ELSE IF Len(lines) = 1 THEN lines[1]
  ELSE lines[1] \o sep \o JoinLines(Tail(lines), sep)

\* Bodies a CSV resource of a past split may have.
Bodies ==
  { JoinLines(<<LineHeader>>, <<LF>>),
    JoinLines(<<LineHeader, LineA5>>, <<LF>>),
    JoinLines(<<LineHeader, LineB5, LineA5, LineC1>>, <<CR, LF>>),
    JoinLines(<<LineHeader, LineTwoField>>, <<LF>>) }

\* Dates of the page load: the year and the month (1..12).
Years  == (SCOREBOARD_FIRST_YEAR - 1)..(SCOREBOARD_FIRST_YEAR + YearsAhead)
Months == 1..12

(***************************************************************************)
(* getCurrentSplitInfo, buildCsvPath.                                      *)
(***************************************************************************)
getCurrentSplitInfo(year, month) ==
  [year |-> year, split |-> IF month >= 7 THEN 2 ELSE 1]

RECURSIVE stripTrailingSlashes(_)
stripTrailingSlashes(s) ==
  IF s # <<>> /\ s[Len(s)] = "/"
  THEN stripTrailingSlashes(SubSeq(s, 1, Len(s) - 1)) ELSE s

\* The path keeps the year and the split as numbers: `${year}_Split${split}.csv`.
buildCsvPath(year, split) ==
  LET trimmed  == stripTrailingSlashes(SCOREBOARD_DATA_FOLDER)
      filename == <<year, "_Split", split, ".csv">>
  IN  IF trimmed # <<>> THEN <<trimmed, "/">> \o filename ELSE filename

(***************************************************************************)
(* buildHallOfFame: the enumeration of the splits.                         *)
(***************************************************************************)
\* As isFutureSplit, with the split compared by >= (the current split is
\* taken for a future one).
isFutureSplitInclusive(year, split, currentYear, currentSplit) ==
  year > currentYear \/ (year = currentYear /\ split >= currentSplit)

\* The condition of the `continue` in the inner loop.
isFutureSplit(year, split, currentYear, currentSplit) ==
  year > currentYear \/ (year = currentYear /\ split > currentSplit)

\* The two nested for loops, from the iteration (year, split) on.
RECURSIVE enumerateFrom(_, _, _, _)
enumerateFrom(year, split, currentYear, currentSplit) ==
  IF ~(year <= currentYear) THEN <<>>
  ELSE IF ~(split <= 2) THEN enumerateFrom(year + 1, 1, currentYear, currentSplit)
  ELSE (IF isFutureSplit(year, split, currentYear, currentSplit) THEN <<>>
        ELSE <<[year |-> year, split |-> split]>>)
         \o enumerateFrom(year, split + 1, currentYear, currentSplit)

enumerateSplits(info) ==
  enumerateFrom(SCOREBOARD_FIRST_YEAR, 1, info.year, info.split)

(***************************************************************************)
(* summariseSplitForHallOfFame.  A call ends by fulfilling its promise     *)
(* with a summary or by rejecting it.                                      *)
(***************************************************************************)
Fulfilled(summary) == [state |-> "fulfilled", value |-> summary]
Rejected == [state |-> "rejected"]

\* As isCurrentSplit, with the two fields of currentInfo exchanged.
isCurrentSplitSwapped(year, split, info) ==
  year = info.split /\ split = info.year

isCurrentSplit(year, split, info) ==
  year = info.year /\ split = info.split

inProgressSummary(year, split) ==
  [year |-> year, split |-> split, status |-> "in-progress"]

offSplitSummary(year, split) ==
  [year |-> year, split |-> split, status |-> "off-split"]

\* if (!response.ok) return off-split
summariseNotOk(year, split) == Fulfilled(offSplitSummary(year, split))

\* As summariseCatch, with the error thrown on to the caller.
summariseCatchRethrow(year, split) == Rejected

\* The catch block: whatever was thrown inside try becomes "off-split".
summariseCatch(year, split) == Fulfilled(offSplitSummary(year, split))

\* As topPlayers, with slice(0, 3).
topThreePlayers(rankedArray) == SubSeq(rankedArray, 1, Min({3, Len(rankedArray)}))

\* ranked.slice(0, 2)
topPlayers(rankedArray) == SubSeq(rankedArray, 1, Min({2, Len(rankedArray)}))

\* From `const records = parseCsv(text)` to the last return of the try block.
summariseText(year, split, body) ==
  LET recs == parseCsv(body)
      rk   == createRankedArray(tallyScores(recs))
  IN  IF Len(recs) = 0 THEN Fulfilled(offSplitSummary(year, split))
      ELSE IF Len(rk) = 0 THEN Fulfilled(offSplitSummary(year, split))
      ELSE Fulfilled([year |-> year, split |-> split, status |-> "completed",
                      players |-> topPlayers(rk)])

(***************************************************************************)
(* Promise.all and the rendering.                                          *)
(***************************************************************************)
\* A slot of the result array that no promise has filled yet.
NoValue == [year |-> 0, split |-> 0, status |-> "none"]

\* As promiseAllStore, with the value pushed: stored in the first slot
\* still empty, so that the array is in completion order.
promiseAllPush(vals, index, value) ==
  [vals EXCEPT ![Min({k \in 1..Len(vals) : vals[k].status = "none"})] = value]

\* Promise.all stores the value of its index-th promise at that index.
promiseAllStore(vals, index, value) == [vals EXCEPT ![index] = value]

\* Promise.all rejects as soon as one of its promises has rejected ...
promiseAllRejected(us) == \E i \in 1..Len(us) : us[i].st = "rejected"

\* As promiseAllFulfilled, with one fulfilled promise being enough
\* (Promise.any in place of Promise.all).
promiseAnyFulfilled(us) == \E i \in 1..Len(us) : us[i].st = "done"

\* ... and otherwise fulfils once every one of them has fulfilled.
promiseAllFulfilled(us) == \A i \in 1..Len(us) : us[i].st = "done"

PLAYER_ALIASES ==
  << <<<<"A", "l", "e", "x", " ", "E", ".">>, <<"S", "h", "r", "i", "m", "p">>>>,
     <<<<"N", "a", "i", "n", "o", "a">>, <<"R", "a", "t">>>>,
     <<<<"I", "s", "a", "b", "e", "l", "l", "e">>, <<"S", "n", "a", "k", "e">>>> >>

getDisplayName(realName) ==
  IF \E i \in 1..Len(PLAYER_ALIASES) : PLAYER_ALIASES[i][1] = realName
  THEN PLAYER_ALIASES[CHOOSE i \in 1..Len(PLAYER_ALIASES) :
                        PLAYER_ALIASES[i][1] = realName][2]
  ELSE realName

\* The element renderHallOfFameEntry builds: its title and its body, a
\* table of the players or one of the two status texts.
renderHallOfFameEntry(summary) ==
  IF summary.status = "completed" /\ Len(summary.players) > 0
  THEN [title |-> <<summary.year, summary.split>>,
        body  |-> "table",
        rows  |-> [i \in 1..Len(summary.players) |->
                     [rank  |-> summary.players[i].rank,
                      name  |-> getDisplayName(summary.players[i].player),
                      total |-> summary.players[i].total]]]
  ELSE [title |-> <<summary.year, summary.split>>,
        body  |-> IF summary.status = "in-progress"
                  THEN "In progress" ELSE "Off split",
        rows  |-> <<>>]

(***************************************************************************)
(* Initial state: the page is loaded, DOMContentLoaded has not fired; no   *)
(* pure function has been applied.                                         *)
(***************************************************************************)
Init ==
  /\ pc = "loading"
  /\ currentInfo = [year |-> 0, split |-> 0]
  /\ splitsToCheck = <<>>
  /\ units = <<>>
  /\ values = <<>>
  /\ summaries = <<>>
  /\ container = [kind |-> "placeholder", entries |-> <<>>]
  /\ fetchLog = <<>>
  /\ reordered = FALSE
  /\ stage = "input"
  /\ text = <<>>
  /\ inputLines = <<>>
  /\ records = <<>>
  /\ totalsMap = <<>>
  /\ ranked = <<>>

(***************************************************************************)
(* The Hall of Fame build.                                                 *)
(***************************************************************************)
\* The synchronous part of summariseSplitForHallOfFame: the call either
\* returns the "in-progress" summary or issues its fetch and waits.
startUnit(year, split, info) ==
  IF isCurrentSplit(year, split, info)
  THEN [st |-> "done", how |-> "current", body |-> <<>>,
        value |-> inProgressSummary(year, split), fetched |-> <<>>]
  ELSE [st |-> "fetch", how |-> "pending", body |-> <<>>,
        value |-> NoValue, fetched |-> <<buildCsvPath(year, split)>>]

\* The fetches the first n started calls have issued, in order.
RECURSIVE fetchesOf(_, _)
fetchesOf(started, n) ==
  IF n = 0 THEN <<>> ELSE fetchesOf(started, n - 1) \o started[n].fetched

\* buildHallOfFame up to its await, on the date (year, month): the splits
\* are enumerated, an empty list ends the build, otherwise every
\* summariseSplitForHallOfFame call is started in enumeration order.
BuildHallOfFame(year, month) ==
  /\ pc = "loading"
  /\ LET info   == getCurrentSplitInfo(year, month)
         splits == enumerateSplits(info)
         started == [i \in 1..Len(splits) |->
                       startUnit(splits[i].year, splits[i].split, info)]
     IN  /\ currentInfo' = info
         /\ splitsToCheck' = splits
         /\ IF Len(splits) = 0
            THEN /\ container' = [kind |-> "nosplits", entries |-> <<>>]
                 /\ pc' = "nosplits"
                 /\ UNCHANGED <<units, values, fetchLog>>
            ELSE /\ units' = [i \in 1..Len(splits) |->
                                [st   |-> started[i].st,
                                 how  |-> started[i].how,
                                 body |-> started[i].body]]
                 /\ values' = [i \in 1..Len(splits) |-> started[i].value]
                 /\ fetchLog' = fetchesOf(started, Len(splits))
                 /\ pc' = "awaiting"
                 /\ UNCHANGED container
  /\ UNCHANGED <<summaries, reordered>>
  /\ UNCHANGED pureVars

\* Unit i ends with `outcome`, having seen the fetch go `how` and read `body`.
Settle(i, how, body, outcome) ==
  /\ units' = [units EXCEPT ![i] =
                 [st   |-> IF outcome.state = "fulfilled" THEN "done" ELSE "rejected",
                  how  |-> how,
                  body |-> body]]
  /\ values' = IF outcome.state = "fulfilled"
               THEN promiseAllStore(values, i, outcome.value) ELSE values
  /\ reordered' = (reordered \/ \E j \in 1..(i - 1) : units[j].st \in {"fetch", "text"})

\* fetch(csvPath) rejects (network error): the catch block runs.
FetchReject(i) ==
  /\ pc = "awaiting"
  /\ units[i].st = "fetch"
  /\ Settle(i, "rejected", <<>>,
            summariseCatch(splitsToCheck[i].year, splitsToCheck[i].split))
  /\ UNCHANGED <<pc, currentInfo, splitsToCheck, summaries, container, fetchLog>>
  /\ UNCHANGED pureVars

\* fetch(csvPath) resolves with a response that is not ok.
FetchNotOk(i) ==
  /\ pc = "awaiting"
  /\ units[i].st = "fetch"
  /\ Settle(i, "notok", <<>>,
            summariseNotOk(splitsToCheck[i].year, splitsToCheck[i].split))
  /\ UNCHANGED <<pc, currentInfo, splitsToCheck, summaries, container, fetchLog>>
  /\ UNCHANGED pureVars

\* fetch(csvPath) resolves with an ok response: response.text() is awaited.
FetchOk(i) ==
  /\ pc = "awaiting"
  /\ units[i].st = "fetch"
  /\ units' = [units EXCEPT ![i] = [st |-> "text", how |-> "ok", body |-> <<>>]]
  /\ UNCHANGED <<pc, currentInfo, splitsToCheck, values, summaries, container,
                 fetchLog, reordered>>
  /\ UNCHANGED pureVars

\* response.text() rejects (the body cannot be read): the catch block runs.
TextReject(i) ==
  /\ pc = "awaiting"
  /\ units[i].st = "text"
  /\ Settle(i, "unreadable", <<>>,
            summariseCatch(splitsToCheck[i].year, splitsToCheck[i].split))
  /\ UNCHANGED <<pc, currentInfo, splitsToCheck, summaries, container, fetchLog>>
  /\ UNCHANGED pureVars

\* response.text() resolves with the body: it is parsed and classified.
TextResolve(i, body) ==
  /\ pc = "awaiting"
  /\ units[i].st = "text"
  /\ Settle(i, "ok", body,
            summariseText(splitsToCheck[i].year, splitsToCheck[i].split, body))
  /\ UNCHANGED <<pc, currentInfo, splitsToCheck, summaries, container, fetchLog>>
  /\ UNCHANGED pureVars

\* The promise of Promise.all settles and buildHallOfFame resumes: with
\* every value, it clears the container and appends one entry per summary;
\* with a rejection, its catch block writes the error text.
PromiseAllSettled ==
  /\ pc = "awaiting"
  /\ promiseAllRejected(units) \/ promiseAllFulfilled(units)
  /\ IF promiseAllRejected(units)
     THEN /\ container' = [kind |-> "error", entries |-> <<>>]
          /\ pc' = "failed"
          /\ UNCHANGED summaries
     ELSE /\ summaries' = values
          /\ container' = [kind    |-> "entries",
                           entries |-> [i \in 1..Len(values) |->
                                          renderHallOfFameEntry(values[i])]]
          /\ pc' = "rendered"
  /\ UNCHANGED <<currentInfo, splitsToCheck, units, values, fetchLog, reordered>>
  /\ UNCHANGED pureVars

Next ==
  \/ \E year \in Years, month \in Months : BuildHallOfFame(year, month)
  \/ \E i \in 1..Len(units) : FetchReject(i)
  \/ \E i \in 1..Len(units) : FetchNotOk(i)
  \/ \E i \in 1..Len(units) : FetchOk(i)
  \/ \E i \in 1..Len(units) : TextReject(i)
  \/ \E i \in 1..Len(units), body \in Bodies : TextResolve(i, body)
  \/ PromiseAllSettled

Spec == Init /\ [][Next]_vars

\* The same with the one progress guarantee the program has: a settled
\* promise runs its continuation, so buildHallOfFame resumes once the
\* promise of Promise.all has settled.  Nothing in the program (no timeout,
\* no cancellation) makes a fetch or the reading of a body settle.
SpecLive == Init /\ [][Next]_vars /\ WF_vars(PromiseAllSettled)

(***************************************************************************)
(* parseCsv on its own: a text is written line by line, then parsed.       *)
(***************************************************************************)
CsvLines ==
  { LineBlank, LineSpace, LineHeader, LineA5, LineBNeg, LineTwoField,
    LineNoScore, LineNoPlayer, LineNoNumber, LineEmbedded }

LineTerminators == { <<LF>>, <<CR, LF>> }

CsvAppendLine(line, sep) ==
  /\ stage = "input"
  /\ Len(inputLines) < 1 + MaxDataLines
  /\ inputLines' = Append(inputLines, line)
  /\ text' = IF inputLines = <<>> THEN line ELSE text \o sep \o line
  /\ UNCHANGED <<stage, records, totalsMap, ranked>>
  /\ UNCHANGED hofVars

ParseCsv ==
  /\ stage = "input"
  /\ records' = parseCsv(text)
  /\ stage' = "parsed"
  /\ UNCHANGED <<text, inputLines, totalsMap, ranked>>
  /\ UNCHANGED hofVars

NextCsv ==
  \/ \E line \in CsvLines, sep \in LineTerminators : CsvAppendLine(line, sep)
  \/ ParseCsv

SpecCsv == Init /\ [][NextCsv]_vars

(***************************************************************************)
(* tallyScores and createRankedArray on their own: records are given,      *)
(* tallied, and the totals ranked.                                         *)
(***************************************************************************)
Players == { <<"A">>, <<"B">>, <<"U+00E9">>, <<"e", "U+0301">> }
Scores  == { 500, 250, -200 }

GiveRecord(player, score) ==
  /\ stage = "input"
  /\ Len(records) < MaxRecords
  /\ records' = Append(records, [player |-> player, score |-> score])
  /\ UNCHANGED <<stage, text, inputLines, totalsMap, ranked>>
  /\ UNCHANGED hofVars

TallyScores ==
  /\ stage = "input"
  /\ totalsMap' = tallyScores(records)
  /\ stage' = "tallied"
  /\ UNCHANGED <<text, inputLines, records, ranked>>
  /\ UNCHANGED hofVars

CreateRankedArray ==
  /\ stage = "tallied"
  /\ ranked' = createRankedArray(totalsMap)
  /\ stage' = "ranked"
  /\ UNCHANGED <<text, inputLines, records, totalsMap>>
  /\ UNCHANGED hofVars

NextRank ==
  \/ \E player \in Players, score \in Scores : GiveRecord(player, score)
  \/ TallyScores
  \/ CreateRankedArray

SpecRank == Init /\ [][NextRank]_vars

(***************************************************************************)
(* Properties of the Hall of Fame build (specification Spec).              *)
(***************************************************************************)
\* (year, split) of a comes strictly before that of b.
Earlier(a, b) == a.year < b.year \/ (a.year = b.year /\ a.split < b.split)

Pending(i) == units[i].st \in {"fetch", "text"}

\* C1: whatever the order in which the fetches complete, the summaries
\* handed to the renderer are one per enumerated split, in enumeration
\* order (year ascending, then split ascending): none is moved, dropped or
\* repeated, and the entries appended to the container follow them.
C1_EnumerationOrderKept ==
  pc = "rendered" =>
    /\ Len(summaries) = Len(splitsToCheck)
    /\ Len(container.entries) = Len(splitsToCheck)
    /\ \A i \in 1..Len(splitsToCheck) :
         /\ summaries[i].year = splitsToCheck[i].year
         /\ summaries[i].split = splitsToCheck[i].split
         /\ container.entries[i].title =
              <<splitsToCheck[i].year, splitsToCheck[i].split>>
    /\ \A i, j \in 1..Len(summaries) : i < j => Earlier(summaries[i], summaries[j])

\* The build has rendered three or more splits after a fetch completed
\* before the fetch of an earlier split.
C1_Witness ==
  pc = "rendered" /\ reordered /\ Len(summaries) >= 3

\* C2: the summary of the current split is "in-progress" with no players,
\* whatever the fetches of the build return, and the build never fetches
\* the CSV path of the current split.
C2_CurrentInProgress ==
  pc \in {"awaiting", "rendered"} =>
    /\ \A k \in 1..Len(fetchLog) :
         fetchLog[k] # buildCsvPath(currentInfo.year, currentInfo.split)
    /\ \A i \in 1..Len(splitsToCheck) :
         (splitsToCheck[i].year = currentInfo.year
            /\ splitsToCheck[i].split = currentInfo.split) =>
           /\ units[i].how = "current"
           /\ DOMAIN values[i] = {"year", "split", "status"}
           /\ values[i].status = "in-progress"
           /\ values[i].year = currentInfo.year
           /\ values[i].split = currentInfo.split
           /\ pc = "rendered" =>
                /\ summaries[i] = values[i]
                /\ container.entries[i].body = "In progress"

\* The build has rendered the current split next to a completed past one.
C2_Witness ==
  /\ pc = "rendered"
  /\ summaries[Len(summaries)].status = "in-progress"
  /\ \E j \in 1..Len(summaries) : summaries[j].status = "completed"

FailureHows == {"rejected", "notok", "unreadable"}

\* C3: a failed fetch of one split (rejected fetch, response not ok, body
\* that cannot be read) makes that split's summary { year, split,
\* "off-split" } and nothing else: the step leaves the units and the values
\* of all other splits as they are, and the build never ends in its
\* "Unable to load Hall of Fame data" outcome.
C3_FailureIsolated ==
  /\ [](pc # "failed" /\ container.kind # "error")
  /\ [](\A i \in 1..Len(units) :
          units[i].how \in FailureHows =>
            /\ units[i].st = "done"
            /\ values[i] = [year   |-> splitsToCheck[i].year,
                            split  |-> splitsToCheck[i].split,
                            status |-> "off-split"])
  /\ [][\A i \in 1..Len(units) :
          (Pending(i) /\ units'[i].how \in FailureHows) =>
            \A j \in 1..Len(units) :
              j # i => units'[j] = units[j] /\ values'[j] = values[j]]_vars

\* The build has rendered a failed split next to a completed one.
C3_Witness ==
  /\ pc = "rendered"
  /\ \E i, j \in 1..Len(units) :
       /\ units[i].how \in FailureHows
       /\ summaries[i].status = "off-split"
       /\ summaries[j].status = "completed"

\* The pairs the enumeration is to contain.
ExpectedSplits(info) ==
  {p \in (SCOREBOARD_FIRST_YEAR..info.year) \X {1, 2} :
     ~(p[1] = info.year /\ p[2] > info.split)}

\* C4: the splits checked are exactly the pairs (y, s) with
\* firstYear <= y <= currentYear, s in {1, 2} and not (y = currentYear and
\* s > currentSplit), year ascending then split ascending, without
\* duplicates; the list ends with the current pair when it is not empty and
\* is empty when currentYear < firstYear.
C4_Enumeration ==
  pc # "loading" =>
    /\ currentInfo.split \in {1, 2}
    /\ Len(splitsToCheck) = Cardinality(ExpectedSplits(currentInfo))
    /\ \A i \in 1..Len(splitsToCheck) :
         <<splitsToCheck[i].year, splitsToCheck[i].split>>
           \in ExpectedSplits(currentInfo)
    /\ \A i, j \in 1..Len(splitsToCheck) :
         i < j => Earlier(splitsToCheck[i], splitsToCheck[j])
    /\ splitsToCheck # <<>> => splitsToCheck[Len(splitsToCheck)] = currentInfo
    /\ currentInfo.year < SCOREBOARD_FIRST_YEAR => splitsToCheck = <<>>

\* firstYear = 2024 and current = (2025, 1): (2024,1), (2024,2), (2025,1).
C4_Witness ==
  /\ pc = "awaiting"
  /\ currentInfo = [year |-> SCOREBOARD_FIRST_YEAR + 1, split |-> 1]
  /\ splitsToCheck = << [year |-> SCOREBOARD_FIRST_YEAR, split |-> 1],
                        [year |-> SCOREBOARD_FIRST_YEAR, split |-> 2],
                        [year |-> SCOREBOARD_FIRST_YEAR + 1, split |-> 1] >>

\* C5: for a past split whose body was read, the summary is "completed"
\* exactly when parsing the body yields a record (and then there is a
\* ranked entry), "off-split" otherwise; the players of a "completed"
\* summary are the first min(2, n) of the n ranked entries, in rank order,
\* and "off-split" and "in-progress" summaries carry no players.
C5_Classification ==
  \A i \in 1..Len(units) :
    /\ (units[i].st = "done" /\ units[i].how = "ok") =>
         LET recs == parseCsv(units[i].body)
             rk   == createRankedArray(tallyScores(recs))
             v    == values[i]
         IN  /\ v.year = splitsToCheck[i].year
             /\ v.split = splitsToCheck[i].split
             /\ v.status \in {"completed", "off-split"}
             /\ v.status = "completed" <=> Len(recs) >= 1
             /\ Len(recs) >= 1 => Len(rk) >= 1
             /\ v.status = "completed" =>
                  /\ Len(v.players) = (IF Len(rk) >= 2 THEN 2 ELSE Len(rk))
                  /\ \A k \in 1..Len(v.players) :
                       v.players[k] = rk[k] /\ v.players[k].rank = k
    /\ values[i].status \in {"off-split", "in-progress"} =>
         "players" \notin DOMAIN values[i]

\* The build has rendered a split of three players with its top two and a
\* split whose body has no record as "off-split".
C5_Witness ==
  /\ pc = "rendered"
  /\ \E i, j \in 1..Len(units) :
       /\ units[i].how = "ok"
       /\ Len(createRankedArray(tallyScores(parseCsv(units[i].body)))) = 3
       /\ Len(summaries[i].players) = 2
       /\ units[j].how = "ok"
       /\ units[j].body # <<>>
       /\ summaries[j].status = "off-split"

\* C9: while a fetch-and-classify unit of the build is pending, nothing is
\* handed to the renderer and the container keeps its placeholder; once the
\* container holds entries, every unit is done and there is one entry per
\* enumerated split.
C9_FanInBarrier ==
  /\ (\E i \in 1..Len(units) : Pending(i)) =>
       /\ summaries = <<>>
       /\ container = [kind |-> "placeholder", entries |-> <<>>]
  /\ container.kind = "entries" =>
       /\ \A i \in 1..Len(units) : units[i].st = "done"
       /\ Len(container.entries) = Len(splitsToCheck)
       /\ Len(splitsToCheck) > 0

\* Some past split has its summary while another is still being fetched,
\* and the container still shows its placeholder.
C9_Witness ==
  /\ pc = "awaiting"
  /\ container.kind = "placeholder"
  /\ \E i, j \in 1..Len(units) :
       /\ units[i].st = "done" /\ units[i].how = "ok"
       /\ Pending(j)

(***************************************************************************)
(* Properties of parseCsv (specification SpecCsv).                         *)
(***************************************************************************)
Commas(line) == {i \in 1..Len(line) : line[i] = ","}
NonBlank(s) == \E i \in 1..Len(s) : ~IsWhitespace(s[i])
HasDigit(s) == \E i \in 1..Len(s) : IsDigit(s[i])

\* The field before the first comma of a line that has one.
FirstField(line) == SubSeq(line, 1, Min(Commas(line)) - 1)

\* The field after the first comma, up to the next comma or the end.
SecondField(line) ==
  LET c1   == Min(Commas(line))
      rest == {i \in Commas(line) : i > c1}
  IN  SubSeq(line, c1 + 1, IF rest = {} THEN Len(line) ELSE Min(rest) - 1)

\* A line with a first and a second comma, a player before the first and a
\* numeric token between the two.
RecordLine(line) ==
  /\ Cardinality(Commas(line)) >= 2
  /\ NonBlank(FirstField(line))
  /\ HasDigit(SecondField(line))

\* A row of the documented layout: at least two comma-separated fields, a
\* player in the first and a number in the second.
LayoutRow(line) ==
  /\ Cardinality(Commas(line)) >= 1
  /\ NonBlank(FirstField(line))
  /\ HasDigit(SecondField(line))

PlayerOf(line) == trim(FirstField(line))

AllButFirst(lines) == IF lines = <<>> THEN <<>> ELSE Tail(lines)

\* The lines left when the white space around the whole text is removed:
\* leading and trailing blank lines go.
TrimmedLines(lines) ==
  LET nb == {i \in 1..Len(lines) : NonBlank(lines[i])}
  IN  IF nb = {} THEN <<>> ELSE SubSeq(lines, Min(nb), Max(nb))

\* The records are, in order, one per line of `lines`, with its player.
RecordsAre(lines) ==
  /\ Len(records) = Len(lines)
  /\ \A k \in 1..Len(lines) : records[k].player = PlayerOf(lines[k])

\* C7 as stated: parseCsv discards the first line of the input and returns,
\* in input order, one record for each remaining line that has two commas,
\* a player and a numeric token, dropping every other line.
C7_FirstLineOfInput ==
  stage = "parsed" => RecordsAre(SelectSeq(AllButFirst(inputLines), RecordLine))

\* C7 as amended: the same, of the lines of the text with the white space
\* around it removed: the line discarded is the first line that is not
\* blank, and a text of no or one such line yields no record.
C7_FirstLineOfTrimmedText ==
  stage = "parsed" =>
    /\ RecordsAre(SelectSeq(AllButFirst(TrimmedLines(inputLines)), RecordLine))
    /\ Len(TrimmedLines(inputLines)) <= 1 => records = <<>>

\* Parsed: three lines, the first a well-formed row that is discarded as
\* the header, the second kept, the third malformed and dropped.
C7_Witness ==
  /\ stage = "parsed"
  /\ Len(inputLines) = 3
  /\ RecordLine(inputLines[1])
  /\ RecordLine(inputLines[2])
  /\ NonBlank(inputLines[3]) /\ ~RecordLine(inputLines[3])
  /\ Len(records) = 1

\* C10: every data row of the documented layout (at least two fields, a
\* player in the first, a number in the second) yields a record; a row of
\* exactly two fields is counted.
C10_LayoutRowsCounted ==
  stage = "parsed" =>
    RecordsAre(SelectSeq(AllButFirst(TrimmedLines(inputLines)), LayoutRow))

(***************************************************************************)
(* Properties of tallyScores and createRankedArray (specification          *)
(* SpecRank).                                                              *)
(***************************************************************************)
\* The sum of the scores of the records of player p.
RECURSIVE SumFor(_, _)
SumFor(recs, p) ==
  IF recs = <<>> THEN 0
  ELSE (IF Head(recs).player = p THEN Head(recs).score ELSE 0) + SumFor(Tail(recs), p)

\* Position of player p in the mapping (insertion order).
MapIndex(m, p) == CHOOSE i \in 1..Len(m) : m[i].player = p

\* Each player of the mapping once, total unchanged; rank = position.
RankedIsPermutation ==
  /\ Len(ranked) = Len(totalsMap)
  /\ \A i \in 1..Len(totalsMap) :
       /\ Cardinality({k \in 1..Len(ranked) :
                         ranked[k].player = totalsMap[i].player}) = 1
       /\ \E k \in 1..Len(ranked) :
            /\ ranked[k].player = totalsMap[i].player
            /\ ranked[k].total = totalsMap[i].total
  /\ \A k \in 1..Len(ranked) : ranked[k].rank = k

\* C6 as stated: each player once with its total, rank = position, and of
\* two adjacent entries the earlier has the greater total, or the same
\* total and a name that compares earlier.
C6_NameComparesEarlier ==
  stage = "ranked" =>
    /\ RankedIsPermutation
    /\ \A k \in 1..(Len(ranked) - 1) :
         \/ ranked[k].total > ranked[k + 1].total
         \/ /\ ranked[k].total = ranked[k + 1].total
            /\ localeCompare(ranked[k].player, ranked[k + 1].player) < 0

\* C6 as amended: ..., or the same total and a name that compares earlier,
\* or the same total and a name that compares equal (two spellings of one
\* name that are canonically equivalent), the two then being in the order
\* in which the mapping holds them.
C6_RankedOrder ==
  stage = "ranked" =>
    /\ RankedIsPermutation
    /\ \A k \in 1..(Len(ranked) - 1) :
         \/ ranked[k].total > ranked[k + 1].total
         \/ /\ ranked[k].total = ranked[k + 1].total
            /\ localeCompare(ranked[k].player, ranked[k + 1].player) < 0
         \/ /\ ranked[k].total = ranked[k + 1].total
            /\ localeCompare(ranked[k].player, ranked[k + 1].player) = 0
            /\ MapIndex(totalsMap, ranked[k].player)
                 < MapIndex(totalsMap, ranked[k + 1].player)

\* { B: 5, A: 5 } is ranked A first, B second.
C6_Witness ==
  /\ stage = "ranked"
  /\ totalsMap = << [player |-> <<"B">>, total |-> 500],
                    [player |-> <<"A">>, total |-> 500] >>
  /\ ranked = << [rank |-> 1, player |-> <<"A">>, total |-> 500],
                 [rank |-> 2, player |-> <<"B">>, total |-> 500] >>

\* C8: the keys of the mapping are the distinct players of the records
\* (exact match), each once, and each value is the sum of the scores of the
\* records of that player, negative scores included.
C8_TallySums ==
  stage \in {"tallied", "ranked"} =>
    /\ {totalsMap[i].player : i \in 1..Len(totalsMap)}
         = {records[i].player : i \in 1..Len(records)}
    /\ \A i, j \in 1..Len(totalsMap) :
         totalsMap[i].player = totalsMap[j].player => i = j
    /\ \A i \in 1..Len(totalsMap) :
         totalsMap[i].total = SumFor(records, totalsMap[i].player)

\* [{A, 2.5}, {A, -2}, {B, 5}] is tallied { A: 0.5, B: 5 }.
C8_Witness ==
  /\ stage = "tallied"
  /\ records = << [player |-> <<"A">>, score |-> 250],
                  [player |-> <<"A">>, score |-> -200],
                  [player |-> <<"B">>, score |-> 500] >>
  /\ totalsMap = << [player |-> <<"A">>, total |-> 50],
                    [player |-> <<"B">>, total |-> 500] >>

(***************************************************************************)
(* Progress of the Hall of Fame build (specification SpecLive).            *)
(***************************************************************************)
\* No enumeration is longer than this.
MaxUnits == 2 * (YearsAhead + 1)

FetchPending(i) == i <= Len(units) /\ units[i].st = "fetch"
TextPending(i) == i <= Len(units) /\ units[i].st = "text"

\* Every fetch(csvPath) issued settles: resolves, ok or not, or rejects.
\* A fetch is pending from its issue until it settles, so it settles
\* exactly when it is again and again not pending.
EveryFetchSettles ==
  \A i \in 1..MaxUnits : []<>~FetchPending(i)

\* Every response.text() called settles.
EveryReadSettles ==
  \A i \in 1..MaxUnits : []<>~TextPending(i)

\* The build has rendered one entry per enumerated split.
Rendered ==
  /\ pc = "rendered"
  /\ container.kind = "entries"
  /\ Len(container.entries) = Len(splitsToCheck)

\* The fetches issued are those of the enumerated splits other than the
\* current one, one each.
FetchedOnce ==
  pc \in {"awaiting", "rendered"} =>
    /\ Len(fetchLog) = Cardinality({i \in 1..Len(splitsToCheck) :
                                      splitsToCheck[i] # currentInfo})
    /\ \A k, l \in 1..Len(fetchLog) : fetchLog[k] = fetchLog[l] => k = l
    /\ \A k \in 1..Len(fetchLog) :
         \E i \in 1..Len(splitsToCheck) :
           /\ splitsToCheck[i] # currentInfo
           /\ fetchLog[k] = buildCsvPath(splitsToCheck[i].year,
                                         splitsToCheck[i].split)

\* What C11 says of every run, whatever settles: each past split fetched
\* once and never again, nothing rendered while a unit is pending, and no
\* step after the rendering.
BuildSafety ==
  /\ []FetchedOnce
  /\ [][pc # "loading" => fetchLog' = fetchLog]_vars
  /\ []((\E i \in 1..Len(units) : Pending(i)) =>
          pc = "awaiting" /\ container.kind = "placeholder")
  /\ [][pc # "rendered"]_vars

\* C11 as stated: each past split is fetched at most once; if every issued
\* fetch eventually settles (success, non-success response or rejection),
\* the build eventually renders one entry per enumerated split and stops;
\* while a fetch is pending the build does not render.
C11_FetchesSettle ==
  /\ BuildSafety
  /\ EveryFetchSettles => (pc = "awaiting" ~> Rendered)

\* C11 as amended: the same, if every issued fetch and every reading of a
\* response body (response.text()) eventually settles.
C11_FetchesAndReadsSettle ==
  /\ BuildSafety
  /\ (EveryFetchSettles /\ EveryReadSettles) => (pc = "awaiting" ~> Rendered)

\* The build has rendered after two or more fetches, one of which gave a
\* body that was read.
C11_Witness ==
  /\ Rendered
  /\ Len(fetchLog) >= 2
  /\ Len(container.entries) = Len(fetchLog) + 1
  /\ \E i \in 1..Len(units) : units[i].how = "ok" /\ units[i].body # <<>>

====
